---- MODULE Spec2Model ----
(***************************************************************************)
(* A model of node-dns-resolver: the DnsResolver class (resolve.js), its   *)
(* DnsError (util.js) and the allow-list it validates against.             *)
(*                                                                         *)
(* The resolver adapter (node:dns/promises Resolver) is the environment:   *)
(* every query the code sends is appended to `queries`, and every pending  *)
(* query is answered by a step that draws the answer from a bounded set.   *)
(* Each action is one run of the event loop: the code from one `await` to  *)
(* the next.                                                               *)
(***************************************************************************)
EXTENDS Integers, Sequences, FiniteSets, TLC

VARIABLES
  c,            \* DnsResolver.c: the instance's allow-list
  queries,      \* the queries sent to the Resolver, in issue order
  answers,      \* the Resolver's answers: answers[i] settles queries[i]
  webPc,        \* position of the validateWeb call
  webHostname,  \* validateWeb's hostname argument
  webCur,       \* hostname parameter of the innermost pending validator
  chain,        \* the chain array of the validateWeb call
  webResult,    \* what validateWeb's promise settled with
  ipResult,     \* what #validateIp's promise settled with
  mailPc,       \* position of the validateMail call
  mailHostname, \* validateMail's hostname argument
  dkimArg,      \* validateMail's dkim argument
  task,         \* position of each of the three validators of validateMail
  mailAnswers,  \* the Resolver's answer to each validator's query
  results,      \* the results object of validateMail
  mailReturn,   \* what validateMail's promise settled with
  configuration,\* config.js: the process-wide object, its arrays by reference
  heap,         \* the arrays of the program: heap[id] is the content of array id
  returned,     \* the object the caller last got from get(), config() or reset()
  passed,       \* the object the caller last passed to config()
  inst,         \* DnsResolver.c as an object, its arrays by reference
  lastCall,     \* the last call on the store or the instance, and its arguments
  calls,        \* the validateWeb calls that run side by side on the instance
  chains        \* the chain arrays those calls created: chains[ref] is array ref

webVars == <<webPc, webHostname, webCur, chain, webResult, ipResult>>
mailVars == <<mailPc, mailHostname, dkimArg, task, mailAnswers, results, mailReturn>>
storeVars == <<configuration, heap, returned, passed, inst, lastCall>>
sideVars == <<calls, chains>>
vars == <<c, queries, answers, webVars, mailVars, storeVars, sideVars>>

----------------------------------------------------------------------------
(* Values of the JavaScript program *)

\* the JavaScript value undefined
Undefined == "undefined"

\* resolve.js:19
MAX_CNAME_DEPTH == 16

\* a chain entry's result is a string or an array of strings
Str(s) == [isArray |-> FALSE, s |-> s, v |-> <<>>]
Arr(a) == [isArray |-> TRUE, s |-> "", v |-> a]

\* the entry every validator writes before it sends its query
Entry(nr, type, hostname) ==
  [nr |-> nr, type |-> type, hostname |-> hostname, result |-> Str("invalid")]

\* chain[chainIndex].result = value (chainIndex counts from 0)
SetResult(ch, chainIndex, value) ==
  [ch EXCEPT ![chainIndex + 1].result = value]

Query(type, hostname) == [type |-> type, hostname |-> hostname]

\* a lookup that resolved with the records v, and one that rejected with code
Resolved(v) == [ok |-> TRUE, v |-> v, code |-> ""]
Rejected(code) == [ok |-> FALSE, v |-> <<>>, code |-> code]

\* Array.prototype.includes
Includes(list, e) == \E i \in 1..Len(list) : list[i] = e

\* list[0]
ArrayFirst(list) == IF Len(list) = 0 THEN Undefined ELSE list[1]

\* an Error rejected by the Resolver: it carries the c-ares code
ResolverError(code) ==
  [class |-> "Error", isError |-> TRUE, code |-> code, message |-> "query failed"]

\* new Error(message): an Error without a code property
PlainError(message) ==
  [class |-> "Error", isError |-> TRUE, code |-> Undefined, message |-> message]

\* a string used as the `error` of a DnsError
StringCause(s) ==
  [class |-> "string", isError |-> FALSE, code |-> Undefined, message |-> s]

\* new DnsError(message, status, info), info.expectedValue an object
DnsError(message, status, hostname, recordType, expectedValue, error, ch) ==
  [class |-> "DnsError", isError |-> TRUE, name |-> "DnsError",
   message |-> message, status |-> status, hostname |-> hostname,
   recordType |-> recordType, expectedValue |-> expectedValue,
   originalError |-> error, chain |-> ch]

----------------------------------------------------------------------------
(* The bounded environment *)

Hostnames == {"a.test", "b.test"}

Configs ==
  { [validIpv4 |-> <<"192.0.2.1", "192.0.2.2">>, validIpv6 |-> <<"2001:db8::1">>,
     validCname |-> <<"cdn.ok", "alt.ok">>, validSpf |-> "mail.ok",
     validMx |-> <<"mx.ok", "mx2.ok">>],
    [validIpv4 |-> <<>>, validIpv6 |-> <<"2001:db8::2", "2001:db8::1">>,
     validCname |-> <<"alt.ok", "cdn.ok">>, validSpf |-> "mail.ok",
     validMx |-> <<"mx2.ok">>] }

\* the answers resolveCname may give
CnameAnswers ==
  { <<"a.test">>, <<"b.test", "a.test">>, <<"b.test", "cdn.ok">> }

\* the codes a failed lookup of the walk may carry (types.js DnsErrorCodes)
ErrorCodes == {"ENODATA", "ENOTFOUND"}

----------------------------------------------------------------------------
(* validateWeb and #validateCname *)

\* a slip in the catch of validateWeb: the last allow-listed values, and the
\* chain left out
WebError_lastValue(hostname, error, ch) ==
  DnsError("Validating IP address failed", 400, hostname,
           IF Len(ch) = 0 THEN "CNAME" ELSE ch[Len(ch)].type,
           [CNAME |-> IF Len(c.validCname) = 0 THEN Undefined
                      ELSE c.validCname[Len(c.validCname)],
            A |-> ArrayFirst(c.validIpv4), AAAA |-> ArrayFirst(c.validIpv6)],
           error, ch)

\* resolve.js:59-67: the catch of validateWeb
WebError(hostname, error, ch) ==
  DnsError("Validating IP address failed", 400, hostname,
           IF Len(ch) = 0 THEN "CNAME" ELSE ch[Len(ch)].type,
           [CNAME |-> ArrayFirst(c.validCname), A |-> ArrayFirst(c.validIpv4),
            AAAA |-> ArrayFirst(c.validIpv6)],
           error, ch)

\* resolve.js:235-248: what the catch of #validateCname does with err
CnameCatch(err) ==
  IF err.isError THEN "throw"
  ELSE IF err.isError /\ err.code # Undefined
       THEN IF err.code = "ENODATA" THEN "fallback" ELSE "throw"
       ELSE "throw"

\* a slip in the filter: only the first target is compared
CnameIntersection_firstOnly(addresses) ==
  IF Len(addresses) > 0 /\ Includes(c.validCname, addresses[1])
  THEN <<addresses[1]>> ELSE <<>>

\* resolve.js:223: addresses.filter(e => this.c.validCname.includes(e))
CnameIntersection(addresses) ==
  SelectSeq(addresses, LAMBDA e : Includes(c.validCname, e))

\* a slip in the depth test: > for >=
DepthReached_offByOne(ch) == Len(ch) > MAX_CNAME_DEPTH

\* resolve.js:231: the test that stops the walk
DepthReached(ch) == Len(ch) >= MAX_CNAME_DEPTH

\* resolve.js:216-221: #validateCname up to its await
\* (validateWeb calls it with hostname and a fresh chain)
ValidateWeb(hostname) ==
  /\ webPc = "idle"
  /\ webPc' = "cname"
  /\ webHostname' = hostname
  /\ webCur' = hostname
  /\ chain' = <<Entry(0, "CNAME", hostname)>>
  /\ queries' = Append(queries, Query("CNAME", hostname))
  /\ UNCHANGED mailVars
  /\ UNCHANGED storeVars
  /\ UNCHANGED sideVars
  /\ UNCHANGED <<c, answers, webResult, ipResult>>

\* an error err thrown inside the try of #validateCname at chainIndex: every
\* enclosing #validateCname passes it through its own catch, and validateWeb's
\* catch wraps what arrives.
CnameThrow(err, ch, chainIndex) ==
  IF CnameCatch(err) = "fallback"
  THEN \* resolve.js:238-243: the call of #validateIp, up to the await of #validate6
       /\ webPc' = "aaaa"
       /\ chain' = Append(SetResult(ch, chainIndex, Str(err.code)),
                          Entry(Len(ch), "AAAA", webCur))
       /\ queries' = Append(queries, Query("AAAA", webCur))
       /\ UNCHANGED <<webResult, webCur>>
  ELSE /\ webPc' = "rejected"
       /\ chain' = ch
       /\ webResult' = WebError(webHostname, err, ch)
       /\ UNCHANGED <<queries, webCur>>

\* a slip: the walk follows the last cname of the answer
NextHostname_last(addresses) == addresses[Len(addresses)]

\* resolve.js:234: the hostname of the next lookup, addresses[0]
NextHostname(addresses) == addresses[1]

\* resolve.js:221-234: resolveCname answered with addresses
CnameAnswer(addresses) ==
  /\ webPc = "cname"
  /\ answers' = Append(answers, Resolved(addresses))
  /\ LET chainIndex == Len(chain) - 1
     IN IF Len(CnameIntersection(addresses)) > 0
        THEN /\ chain' = SetResult(chain, chainIndex, Str("valid"))
             /\ webPc' = "resolved"
             /\ webResult' = [class |-> "undefined"]
             /\ UNCHANGED <<queries, webCur>>
        ELSE LET ch == SetResult(chain, chainIndex, Arr(addresses))
             IN IF DepthReached(ch)
                THEN CnameThrow(PlainError("CNAME record lookup exceeded maximum depth"),
                                ch, chainIndex)
                ELSE \* follow the first cname
                     /\ chain' = Append(ch, Entry(Len(ch), "CNAME",
                                                  NextHostname(addresses)))
                     /\ queries' = Append(queries,
                                          Query("CNAME", NextHostname(addresses)))
                     /\ webCur' = NextHostname(addresses)
                     /\ UNCHANGED <<webPc, webResult>>
  /\ UNCHANGED mailVars
  /\ UNCHANGED storeVars
  /\ UNCHANGED sideVars
  /\ UNCHANGED <<c, webHostname, ipResult>>

\* resolve.js:221,235-248: resolveCname rejected with code
CnameFail(code) ==
  /\ webPc = "cname"
  /\ answers' = Append(answers, Rejected(code))
  /\ CnameThrow(ResolverError(code), chain, Len(chain) - 1)
  /\ UNCHANGED mailVars
  /\ UNCHANGED storeVars
  /\ UNCHANGED sideVars
  /\ UNCHANGED <<c, webHostname, ipResult>>

----------------------------------------------------------------------------
(* #validateIp, #validate6 and #validate4 *)

\* the answers resolve6 and resolve4 may give
Ip6Answers ==
  { <<"2001:db8::1">>, <<"2001:db8::9">>, <<"2001:db8::9", "2001:db8::2">> }
Ip4Answers ==
  { <<"192.0.2.1">>, <<"198.51.100.7">>, <<"198.51.100.7", "192.0.2.2">> }

\* resolve.js:200 and 173: the allow-listed addresses of an answer
Intersection6(addresses) ==
  SelectSeq(addresses, LAMBDA e : Includes(c.validIpv6, e))
Intersection4(addresses) ==
  SelectSeq(addresses, LAMBDA e : Includes(c.validIpv4, e))

\* a slip in the catch of #validateIp: every resolver error falls back to A
IpCatch_anyCode(err) == IF err.code = Undefined THEN "throw" ELSE "validate4"

\* resolve.js:149-153: what the catch of #validateIp does with err
IpCatch(err) == IF err.code # "ENODATA" THEN "throw" ELSE "validate4"

\* resolve.js:146-148,189-193: #validateIp(hostname, chain) up to the await of
\* #validate6
ValidateIp ==
  /\ webPc = "ipcall"
  /\ webPc' = "aaaa"
  /\ chain' = Append(chain, Entry(Len(chain), "AAAA", webCur))
  /\ queries' = Append(queries, Query("AAAA", webCur))
  /\ UNCHANGED mailVars
  /\ UNCHANGED storeVars
  /\ UNCHANGED sideVars
  /\ UNCHANGED <<c, answers, webHostname, webCur, webResult, ipResult>>

\* an error err leaves #validate6 at chainIndex, the chain being ch
Validate6Throw(err, ch) ==
  IF IpCatch(err) = "validate4"
  THEN \* resolve.js:152,162-166: #validate4 up to its await
       /\ webPc' = "a"
       /\ chain' = Append(ch, Entry(Len(ch), "A", webCur))
       /\ queries' = Append(queries, Query("A", webCur))
       /\ UNCHANGED ipResult
  ELSE /\ webPc' = "ipRejected"
       /\ chain' = ch
       /\ ipResult' = err
       /\ UNCHANGED queries

\* resolve.js:193-207: resolve6 answered with addresses
Resolve6Answer(addresses) ==
  /\ webPc = "aaaa"
  /\ answers' = Append(answers, Resolved(addresses))
  /\ LET chainIndex == Len(chain) - 1
     IN IF Len(Intersection6(addresses)) > 0
        THEN /\ chain' = SetResult(chain, chainIndex, Str("valid"))
             /\ webPc' = "ipResolved"
             /\ ipResult' = [class |-> "Array", v |-> Intersection6(addresses)]
             /\ UNCHANGED queries
        ELSE Validate6Throw(PlainError("No valid IPv6 addresses found"),
                            SetResult(chain, chainIndex, Arr(addresses)))
  /\ UNCHANGED mailVars
  /\ UNCHANGED storeVars
  /\ UNCHANGED sideVars
  /\ UNCHANGED <<c, webHostname, webCur, webResult>>

\* resolve.js:193-198: resolve6 rejected with code
Resolve6Fail(code) ==
  /\ webPc = "aaaa"
  /\ answers' = Append(answers, Rejected(code))
  /\ Validate6Throw(ResolverError(code),
                    SetResult(chain, Len(chain) - 1, Str(code)))
  /\ UNCHANGED mailVars
  /\ UNCHANGED storeVars
  /\ UNCHANGED sideVars
  /\ UNCHANGED <<c, webHostname, webCur, webResult>>

\* resolve.js:166-180: resolve4 answered with addresses
Resolve4Answer(addresses) ==
  /\ webPc = "a"
  /\ answers' = Append(answers, Resolved(addresses))
  /\ LET chainIndex == Len(chain) - 1
     IN IF Len(Intersection4(addresses)) > 0
        THEN /\ chain' = SetResult(chain, chainIndex, Str("valid"))
             /\ webPc' = "ipResolved"
             /\ ipResult' = [class |-> "Array", v |-> Intersection4(addresses)]
        ELSE /\ chain' = SetResult(chain, chainIndex, Arr(addresses))
             /\ webPc' = "ipRejected"
             /\ ipResult' = PlainError("No valid IPv4 addresses found")
  /\ UNCHANGED mailVars
  /\ UNCHANGED storeVars
  /\ UNCHANGED sideVars
  /\ UNCHANGED <<c, queries, webHostname, webCur, webResult>>

\* resolve.js:166-171: resolve4 rejected with code
Resolve4Fail(code) ==
  /\ webPc = "a"
  /\ answers' = Append(answers, Rejected(code))
  /\ chain' = SetResult(chain, Len(chain) - 1, Str(code))
  /\ webPc' = "ipRejected"
  /\ ipResult' = ResolverError(code)
  /\ UNCHANGED mailVars
  /\ UNCHANGED storeVars
  /\ UNCHANGED sideVars
  /\ UNCHANGED <<c, queries, webHostname, webCur, webResult>>

----------------------------------------------------------------------------
(* Strings, TXT records and MX records *)

\* String.prototype.startsWith
StartsWith(s, prefix) ==
  Len(s) >= Len(prefix) /\ SubSeq(s, 1, Len(prefix)) = prefix

\* String.prototype.includes
StrIncludes(s, sub) ==
  \E i \in 1..(Len(s) - Len(sub) + 1) : SubSeq(s, i, i + Len(sub) - 1) = sub

\* Array.prototype.join("") on the segments of a TXT record
RECURSIVE Join(_)
Join(v) == IF v = <<>> THEN "" ELSE Head(v) \o Join(Tail(v))

\* Array.prototype.sort((a, b) => a.priority - b.priority), which is stable:
\* r goes behind the records whose priority is not greater
RECURSIVE InsertByPriority(_, _)
InsertByPriority(sorted, r) ==
  IF sorted = <<>> THEN <<r>>
  ELSE IF Head(sorted).priority <= r.priority
       THEN <<Head(sorted)>> \o InsertByPriority(Tail(sorted), r)
       ELSE <<r>> \o sorted

\* a slip: the sort left out, the records stay in the Resolver's order
SortByPriority_unsorted(list) == list

RECURSIVE SortByPriority(_)
SortByPriority(list) ==
  IF list = <<>> THEN <<>>
  ELSE InsertByPriority(SortByPriority(SubSeq(list, 1, Len(list) - 1)), list[Len(list)])

\* resolve.js:314: addresses.map(e => `${e.priority} ${e.exchange}`)
PriorityExchange(addresses) ==
  [i \in 1..Len(addresses) |->
     ToString(addresses[i].priority) \o " " \o addresses[i].exchange]

\* a TypeError thrown by the engine, and one thrown by Node's argument check
TypeError(message) ==
  [class |-> "TypeError", isError |-> TRUE, code |-> Undefined, message |-> message]
ArgTypeError ==
  [class |-> "TypeError", isError |-> TRUE, code |-> "ERR_INVALID_ARG_TYPE",
   message |-> "The name argument must be of type string"]

\* util.js:25-35: new DnsError(message, status, info), info.expectedValue a
\* string (or undefined, which the constructor stores as it is)
DnsErrorOfString(message, status, info, error, ch) ==
  DnsError(message, status, info.hostname, info.recordType,
           IF info.expectedValue = Undefined THEN Undefined
           ELSE (info.recordType :> info.expectedValue),
           error, ch)

\* {...expectedValue, valid: true}
DnsValid(info) ==
  [class |-> "Object", valid |-> TRUE, hostname |-> info.hostname,
   recordType |-> info.recordType, expectedValue |-> info.expectedValue]

\* the status the validators give a failed lookup
LookupStatus(code) == IF code = "ENOTFOUND" THEN 404 ELSE 500

\* a slip: every mismatch reported as a conflict
MismatchStatus_conflict(slot) == 409

\* resolve.js:278,315,127: the status of the error a validator throws when the
\* record it found is not the expected one
MismatchStatus(slot) == IF slot = "mx" THEN 409 ELSE 404

----------------------------------------------------------------------------
(* The bounded environment of validateMail *)

Selector == "s1._domainkey.a.test"
PublicKey == "v=DKIM1; p=MIGfMA0G"

\* the dkim argument: absent, or an object with some of the keys of DkimKeys
NoDkim == [given |-> FALSE, obj |-> <<>>]
DkimObject(o) == [given |-> TRUE, obj |-> o]
DkimArgs ==
  { NoDkim,
    DkimObject([selector |-> Selector, publicKey |-> PublicKey]),
    DkimObject([selector |-> Selector, publicKey |-> PublicKey, privateKey |-> "MIICXAIB"]),
    DkimObject([selector |-> Selector, privateKey |-> "MIICXAIB"]),
    DkimObject([publicKey |-> PublicKey, privateKey |-> "MIICXAIB"]),
    DkimObject([selector |-> Selector]) }

\* o[k]
Prop(o, k) == IF k \in DOMAIN o THEN o[k] ELSE Undefined

MailErrorCodes == {"ENODATA", "ENOTFOUND", "ESERVFAIL"}

\* the TXT answers at the mail hostname
SpfPass == <<"v=spf1 include:mail.ok -all">>
SpfSplit == <<"v=spf1 inc", "lude:mail.ok ~all">>
SpfOther == <<"v=spf1 include:other.net -all">>
SpfLonger == <<"v=spf1 include:mail.ok.other.net -all">>
NotSpf == <<"site-verification=1">>
SpfSecondSegment == <<"x ", "v=spf1 include:mail.ok -all">>
SpfTxtAnswers ==
  { <<>>, <<SpfPass>>, <<NotSpf, SpfSplit>>, <<SpfOther>>, <<SpfLonger>>,
    <<NotSpf>>, <<SpfSecondSegment>>, <<SpfPass, SpfOther>>, <<SpfOther, SpfOther>>,
    <<SpfOther, NotSpf>> }

\* the MX answers at the mail hostname
Mx(priority, exchange) == [priority |-> priority, exchange |-> exchange]
MxAnswers ==
  { <<>>,
    <<Mx(10, "mx.ok")>>,
    <<Mx(10, "other.net"), Mx(5, "mx2.ok")>>,
    <<Mx(5, "other.net"), Mx(10, "mx.ok")>>,
    <<Mx(10, "mx.ok"), Mx(10, "other.net")>>,
    <<Mx(10, "other.net"), Mx(10, "mx2.ok")>>,
    <<Mx(20, "mx.ok"), Mx(10, "other.net"), Mx(10, "mx2.ok")>> }

\* the TXT answers at the DKIM selector
DkimTxtAnswers ==
  { <<>>,
    << <<PublicKey>> >>,
    << <<"v=DKIM1; ", "p=MIGfMA0G">> >>,
    << <<"v=spf1 -all">>, <<PublicKey>> >>,
    << <<PublicKey \o "QUAA">> >>,
    << <<"v=DKIM1; ">>, <<"p=MIGfMA0G">> >> }

Lookups(records) ==
  {Resolved(v) : v \in records} \cup {Rejected(e) : e \in MailErrorCodes}

----------------------------------------------------------------------------
(* #validateSpf, #validateMx, #validateDkim: what each settles with, given *)
(* the answer to its query                                                 *)

\* a slip in the filter: any segment may start with v=spf1
SpfRecords_anySegment(records) ==
  SelectSeq(records, LAMBDA v : \E k \in 1..Len(v) : StartsWith(v[k], "v=spf1"))

\* resolve.js:270: records.filter(v => v[0].startsWith("v=spf1"))
SpfRecords(records) == SelectSeq(records, LAMBDA v : StartsWith(v[1], "v=spf1"))

\* resolve.js:256-290
ValidateSpf(hostname, ans) ==
  LET validSpf == c.validSpf
      expectedValue == [hostname |-> hostname \o ".", recordType |-> "TXT",
                        expectedValue |-> "v=spf1 include:" \o validSpf \o " -all"]
      ch == <<Entry(0, "MX", hostname)>>
  IN IF ~ans.ok
     THEN DnsErrorOfString("No SPF record found", LookupStatus(ans.code),
                           expectedValue, StringCause(ans.code), ch)
     ELSE LET spfRecords == SpfRecords(ans.v)
          IN IF Len(spfRecords) = 0
             THEN DnsErrorOfString("No SPF record found", 404, expectedValue,
                                   StringCause("ENOTFOUND"), ch)
             ELSE IF Len(spfRecords) > 1
             THEN DnsErrorOfString("Cannot have more than 1 SPF record", 409,
                                   expectedValue, StringCause("PERMERROR"), ch)
             ELSE LET spf == Join(spfRecords[1])
                  IN IF ~StrIncludes(spf, "include:" \o validSpf)
                     THEN DnsErrorOfString(
                            "'" \o validSpf \o "' is not included in spf record: '"
                                \o spf \o "'",
                            MismatchStatus("spf"), expectedValue,
                            StringCause("invalid"),
                            SetResult(ch, 0, Arr(<<spf>>)))
                     ELSE DnsValid(expectedValue)

\* resolve.js:297-327
ValidateMx(hostname, ans) ==
  LET validMx == c.validMx
      expectedValue == [hostname |-> hostname \o ".", recordType |-> "MX",
                        expectedValue |-> "0 " \o ArrayFirst(validMx) \o "."]
      ch == <<Entry(0, "MX", hostname)>>
  IN IF ~ans.ok
     THEN DnsErrorOfString("No MX record found", LookupStatus(ans.code),
                           expectedValue, ResolverError(ans.code), ch)
     ELSE LET addresses == SortByPriority(ans.v)
          IN IF Len(addresses) = 0
             THEN \* priorityDomain is undefined: the TypeError has no code
                  TypeError("Cannot read properties of undefined (reading 'exchange')")
             ELSE IF ~Includes(validMx, addresses[1].exchange)
             THEN DnsErrorOfString(
                    "Please set '" \o ArrayFirst(validMx)
                        \o "' as the MX with the highest priority.",
                    MismatchStatus("mx"), expectedValue, StringCause("invalid"),
                    SetResult(ch, 0, Arr(PriorityExchange(addresses))))
             ELSE DnsValid(expectedValue)

\* resolve.js:108: the test for missing DKIM keys
DkimMissing(dkim) == ~dkim.given \/ Cardinality(DOMAIN dkim.obj) # 2

\* resolve.js:109-117: what #validateDkim works with
DkimExpected(dkim) ==
  [hostname |-> Prop(dkim.obj, "selector"), recordType |-> "TXT",
   expectedValue |-> Prop(dkim.obj, "publicKey")]
DkimChain(dkim) == <<Entry(0, "TXT", Prop(dkim.obj, "selector"))>>

\* resolve.js:108,120: resolveTxt is called, and accepts its argument
DkimSendsQuery(dkim) == ~DkimMissing(dkim) /\ Prop(dkim.obj, "selector") # Undefined

\* resolve.js:108,120,130-135: what #validateDkim settles with when it sends
\* no query
DkimRefused(dkim) ==
  IF DkimMissing(dkim)
  THEN DnsErrorOfString("No DKIM keys have been installed", 400,
                        [hostname |-> "", recordType |-> "TXT", expectedValue |-> ""],
                        StringCause("unavailable"), <<>>)
  ELSE DnsErrorOfString("No TXT records found for selector '"
                            \o Prop(dkim.obj, "selector") \o "'",
                        LookupStatus(ArgTypeError.code), DkimExpected(dkim),
                        ArgTypeError, DkimChain(dkim))

\* a slip in the comparison: a record that starts with the key is accepted
DkimFound_prefix(records, value) ==
  \E i \in 1..Len(records) : value # Undefined /\ StartsWith(Join(records[i]), value)

\* resolve.js:123-126: records.findIndex(v => v.join("") === value) !== -1
DkimFound(records, value) ==
  \E i \in 1..Len(records) : value # Undefined /\ Join(records[i]) = value

\* resolve.js:119-137
ValidateDkim(dkim, ans) ==
  LET selector == Prop(dkim.obj, "selector")
      value == Prop(dkim.obj, "publicKey")
      expectedValue == DkimExpected(dkim)
      ch == DkimChain(dkim)
      notFound == "No TXT records found for selector '" \o selector \o "'"
  IN IF ~ans.ok
     THEN DnsErrorOfString(notFound, LookupStatus(ans.code), expectedValue,
                           ResolverError(ans.code), ch)
     ELSE IF Len(ans.v) = 0
     THEN DnsErrorOfString(notFound, 404, expectedValue, StringCause("ENOTFOUND"), ch)
     ELSE IF ~DkimFound(ans.v, value)
     THEN DnsErrorOfString("Correct DKIM record was not found",
                           MismatchStatus("dkim"), expectedValue,
                           StringCause("ENOTFOUND"), ch)
     ELSE DnsValid(expectedValue)

----------------------------------------------------------------------------
(* validateMail *)

Unset == [class |-> "unset"]
NoAnswer == [ok |-> FALSE, v |-> <<>>, code |-> "pending"]

\* a slip: the .catch left out, a rejection is not stored
Capture_noCatch(res, slot, value) ==
  IF value.class = "Object" THEN [res EXCEPT ![slot] = value] ELSE res

\* resolve.js:84-85 (89-90, 94-95): .then and .catch both store what the
\* validator settled with
Capture(res, slot, value) == [res EXCEPT ![slot] = value]

\* resolve.js:76-97: validateMail up to the await of Promise.all. The three
\* validators run, in order, up to their own await; a validator that throws
\* before it has its slot filled when the microtasks run.
ValidateMail(hostname, dkim) ==
  /\ mailPc = "idle"
  /\ mailPc' = "running"
  /\ mailHostname' = hostname
  /\ dkimArg' = dkim
  /\ queries' = queries \o <<Query("TXT", hostname), Query("MX", hostname)>>
                  \o IF DkimSendsQuery(dkim)
                     THEN <<Query("TXT", Prop(dkim.obj, "selector"))>> ELSE <<>>
  /\ task' = [spf |-> "wait", mx |-> "wait",
              dkim |-> IF DkimSendsQuery(dkim) THEN "wait" ELSE "done"]
  /\ results' = IF DkimSendsQuery(dkim) THEN results
                ELSE Capture(results, "dkim", DkimRefused(dkim))
  /\ UNCHANGED <<c, answers, mailAnswers, mailReturn>>
  /\ UNCHANGED webVars
  /\ UNCHANGED storeVars
  /\ UNCHANGED sideVars

\* a validator settles with value: its slot is filled, and when it is the last
\* of the three, Promise.all resolves and validateMail returns results
Settle(slot, ans, value) ==
  /\ mailPc = "running"
  /\ task[slot] = "wait"
  /\ mailAnswers' = [mailAnswers EXCEPT ![slot] = ans]
  /\ task' = [task EXCEPT ![slot] = "done"]
  /\ results' = Capture(results, slot, value)
  /\ IF \A t \in DOMAIN task : t # slot => task[t] = "done"
     THEN mailPc' = "returned" /\ mailReturn' = results'
     ELSE UNCHANGED <<mailPc, mailReturn>>
  /\ UNCHANGED <<c, queries, answers, mailHostname, dkimArg>>
  /\ UNCHANGED webVars
  /\ UNCHANGED storeVars
  /\ UNCHANGED sideVars

\* resolve.js:83-85,269: resolveTxt(hostname) settled
SpfSettles(ans) == Settle("spf", ans, ValidateSpf(mailHostname, ans))

\* resolve.js:88-90,310: resolveMx(hostname) settled
MxSettles(ans) == Settle("mx", ans, ValidateMx(mailHostname, ans))

\* resolve.js:93-95,120: resolveTxt(selector) settled
DkimSettles(ans) == Settle("dkim", ans, ValidateDkim(dkimArg, ans))

----------------------------------------------------------------------------
(* config.js: the process-wide allow-list *)

\* the fields of DnsValidateConfig that hold arrays, in the order of config.js
ArrayFields == {"validIpv4", "validIpv6", "validCname", "validMx"}

\* an object of the DnsValidateConfig shape with no field set; an array field
\* holds the id of its array, 0 when the field is absent
NoObject ==
  [validIpv4 |-> 0, validIpv6 |-> 0, validCname |-> 0, validSpf |-> Undefined,
   validMx |-> 0]

\* config.js:11-17: the object configuration as the module creates it, on the
\* first four arrays of the heap
EmptyStore ==
  [validIpv4 |-> 1, validIpv6 |-> 2, validCname |-> 3, validSpf |-> "",
   validMx |-> 4]

\* the content of the object obj whose fields are all set
Deref(h, obj) ==
  [validIpv4 |-> h[obj.validIpv4], validIpv6 |-> h[obj.validIpv6],
   validCname |-> h[obj.validCname], validSpf |-> obj.validSpf,
   validMx |-> h[obj.validMx]]

\* a slip: a copy of the object that shares its arrays
StructuredClone_shallow(h, obj) == [heap |-> h, value |-> obj]

\* config.js:58: structuredClone(configuration), a new object on new arrays
StructuredClone(h, obj) ==
  [heap |-> h \o <<h[obj.validIpv4], h[obj.validIpv6], h[obj.validCname],
                   h[obj.validMx]>>,
   value |-> [validIpv4 |-> Len(h) + 1, validIpv6 |-> Len(h) + 2,
              validCname |-> Len(h) + 3, validSpf |-> obj.validSpf,
              validMx |-> Len(h) + 4]]

\* config.js:56-59: get()
Get(h, conf) == StructuredClone(h, conf)

\* a slip: the instance keeps the process-wide object itself
InstanceRead_live(h, conf) == [heap |-> h, value |-> conf]

\* resolve.js:34,43: this.c = configuration.get()
InstanceRead(h, conf) == Get(h, conf)

\* the partial configurations a caller passes: has names the fields present
Partials ==
  { [has |-> {"validIpv4"}, validIpv4 |-> <<"1.1.1.1">>, validIpv6 |-> <<>>,
     validCname |-> <<>>, validSpf |-> Undefined, validMx |-> <<>>],
    [has |-> {"validCname", "validSpf"}, validIpv4 |-> <<>>, validIpv6 |-> <<>>,
     validCname |-> <<"cdn.ok", "alt.ok">>, validSpf |-> "mail.ok",
     validMx |-> <<>>],
    [has |-> {"validIpv4", "validMx"}, validIpv4 |-> <<"192.0.2.1", "192.0.2.2">>,
     validIpv6 |-> <<>>, validCname |-> <<>>, validSpf |-> Undefined,
     validMx |-> <<"mx.ok">>] }

\* the value a caller adds to an array or sets a validSpf to
Foreign == "x.bad"

\* the caller builds the object literal partial: a new array per field present
NewObject(h, partial) ==
  LET h1 == IF "validIpv4" \in partial.has THEN Append(h, partial.validIpv4) ELSE h
      h2 == IF "validIpv6" \in partial.has THEN Append(h1, partial.validIpv6) ELSE h1
      h3 == IF "validCname" \in partial.has THEN Append(h2, partial.validCname) ELSE h2
      h4 == IF "validMx" \in partial.has THEN Append(h3, partial.validMx) ELSE h3
  IN [heap |-> h4,
      value |-> [validIpv4 |-> IF "validIpv4" \in partial.has THEN Len(h1) ELSE 0,
                 validIpv6 |-> IF "validIpv6" \in partial.has THEN Len(h2) ELSE 0,
                 validCname |-> IF "validCname" \in partial.has THEN Len(h3) ELSE 0,
                 validSpf |-> partial.validSpf,
                 validMx |-> IF "validMx" \in partial.has THEN Len(h4) ELSE 0]]

\* the content of the object obj, as a partial configuration
Given(h, obj) ==
  [has |-> {f \in ArrayFields : obj[f] # 0}
             \cup (IF obj.validSpf # Undefined THEN {"validSpf"} ELSE {}),
   validIpv4 |-> IF obj.validIpv4 # 0 THEN h[obj.validIpv4] ELSE <<>>,
   validIpv6 |-> IF obj.validIpv6 # 0 THEN h[obj.validIpv6] ELSE <<>>,
   validCname |-> IF obj.validCname # 0 THEN h[obj.validCname] ELSE <<>>,
   validSpf |-> obj.validSpf,
   validMx |-> IF obj.validMx # 0 THEN h[obj.validMx] ELSE <<>>]

\* a slip: the incoming values take the place of the stored ones
PushAll_replace(array, values) == values

\* config.js:26: array.push(...values)
PushAll(array, values) == array \o values

\* config.js:26-28,30: if (Array.isArray(config[f])) configuration[f].push(...config[f])
PushField(h, conf, obj, f) ==
  IF obj[f] # 0 THEN [h EXCEPT ![conf[f]] = PushAll(h[conf[f]], h[obj[f]])] ELSE h

\* config.js:25-30: the arrays after config(obj, true)
ConfigAppend(h, conf, obj) ==
  PushField(PushField(PushField(PushField(h, conf, obj, "validIpv4"),
                                conf, obj, "validIpv6"),
                      conf, obj, "validCname"),
            conf, obj, "validMx")

\* config.js:29,35: if (typeof config.validSpf === "string") configuration.validSpf = config.validSpf
ConfigSpf(conf, obj) ==
  [conf EXCEPT !.validSpf = IF obj.validSpf # Undefined THEN obj.validSpf ELSE @]

\* config.js:32-36: the object configuration after config(obj, false): every
\* array given is stored by reference
ConfigReplace(conf, obj) ==
  [validIpv4 |-> IF obj.validIpv4 # 0 THEN obj.validIpv4 ELSE conf.validIpv4,
   validIpv6 |-> IF obj.validIpv6 # 0 THEN obj.validIpv6 ELSE conf.validIpv6,
   validCname |-> IF obj.validCname # 0 THEN obj.validCname ELSE conf.validCname,
   validSpf |-> ConfigSpf(conf, obj).validSpf,
   validMx |-> IF obj.validMx # 0 THEN obj.validMx ELSE conf.validMx]

\* the calls on the store and the instance one run makes at most
MaxOps == 4

\* the record of a call: its number, its name and its arguments
Call(op, given, append) ==
  [n |-> lastCall.n + 1, op |-> op, given |-> given, append |-> append]

\* config.js:24-40: config(obj, append), obj an object of the heap o.heap
ConfigCall(o, append) ==
  /\ lastCall.n < MaxOps
  /\ LET obj == o.value
         h == IF append THEN ConfigAppend(o.heap, configuration, obj) ELSE o.heap
         conf == IF append THEN ConfigSpf(configuration, obj)
                 ELSE ConfigReplace(configuration, obj)
         r == Get(h, conf)
     IN /\ configuration' = conf
        /\ heap' = r.heap
        /\ returned' = r.value
        /\ passed' = obj
        /\ c' = Deref(r.heap, inst)
        /\ lastCall' = Call("config", Given(o.heap, obj), append)
  /\ UNCHANGED <<inst, queries, answers, webVars, mailVars,
               sideVars>>

\* config(partial, append) with a new object literal
Config(partial, append) == ConfigCall(NewObject(heap, partial), append)

\* config(obj, append) with the object the caller passed before
ConfigAgain(append) ==
  /\ passed # NoObject
  /\ ConfigCall([heap |-> heap, value |-> passed], append)

\* config.js:48-52: the fields of configuration set to new empty arrays and ""
ResetStore(h) ==
  [heap |-> h \o <<<<>>, <<>>, <<>>, <<>>>>,
   conf |-> [validIpv4 |-> Len(h) + 1, validIpv6 |-> Len(h) + 2,
             validCname |-> Len(h) + 3, validSpf |-> "", validMx |-> Len(h) + 4]]

\* config.js:47-54: reset()
Reset ==
  /\ lastCall.n < MaxOps
  /\ LET z == ResetStore(heap)
         r == Get(z.heap, z.conf)
     IN /\ configuration' = z.conf
        /\ heap' = r.heap
        /\ returned' = r.value
        /\ c' = Deref(r.heap, inst)
  /\ lastCall' = Call("reset", Given(heap, NoObject), FALSE)
  /\ UNCHANGED <<passed, inst, queries, answers, webVars, mailVars,
               sideVars>>

\* config.js:56-59: the caller calls get()
GetCall ==
  /\ lastCall.n < MaxOps
  /\ LET r == Get(heap, configuration)
     IN /\ heap' = r.heap
        /\ returned' = r.value
        /\ c' = Deref(r.heap, inst)
  /\ lastCall' = Call("get", Given(heap, NoObject), FALSE)
  /\ UNCHANGED <<configuration, passed, inst, queries, answers, webVars, mailVars,
               sideVars>>

\* the caller changes the object it got: a push on one of its arrays, or an
\* assignment to its validSpf
MutateReturned(f) ==
  /\ lastCall.n < MaxOps
  /\ returned # NoObject
  /\ IF f = "validSpf"
     THEN /\ returned' = [returned EXCEPT !.validSpf = Foreign]
          /\ UNCHANGED heap
     ELSE /\ heap' = [heap EXCEPT ![returned[f]] = Append(@, Foreign)]
          /\ UNCHANGED returned
  /\ c' = Deref(heap', inst)
  /\ lastCall' = Call("mutate returned", Given(heap, NoObject), FALSE)
  /\ UNCHANGED <<configuration, passed, inst, queries, answers, webVars, mailVars,
               sideVars>>

\* the caller changes the object it passed to config(): a push on one of its
\* arrays, or an assignment to its validSpf
MutatePassed(f) ==
  /\ lastCall.n < MaxOps
  /\ passed[f] # NoObject[f]
  /\ IF f = "validSpf"
     THEN /\ passed' = [passed EXCEPT !.validSpf = Foreign]
          /\ UNCHANGED heap
     ELSE /\ heap' = [heap EXCEPT ![passed[f]] = Append(@, Foreign)]
          /\ UNCHANGED passed
  /\ c' = Deref(heap', inst)
  /\ lastCall' = Call("mutate passed", Given(heap, NoObject), FALSE)
  /\ UNCHANGED <<configuration, returned, inst, queries, answers, webVars, mailVars,
               sideVars>>

\* resolve.js:32-34,42-43: this.c is read from the store, by the constructor
\* (op = "new") or by the instance's config method (op = "instance config")
ReadStore(op) ==
  /\ lastCall.n < MaxOps
  /\ LET r == InstanceRead(heap, configuration)
     IN /\ heap' = r.heap
        /\ inst' = r.value
        /\ c' = Deref(r.heap, r.value)
  /\ lastCall' = Call(op, Given(heap, NoObject), FALSE)
  /\ UNCHANGED <<configuration, returned, passed, queries, answers, webVars, mailVars,
               sideVars>>

\* resolve.js:31-35: new DnsResolver()
Construct == ReadStore("new")

\* resolve.js:41-44: the instance's config()
InstanceConfig == ReadStore("instance config")

\* the store untouched and an instance built with the object conf as argument
\* (resolve.js:33: this.c = config)
StoreIdle(conf) ==
  /\ configuration = EmptyStore
  /\ heap = <<<<>>, <<>>, <<>>, <<>>, conf.validIpv4, conf.validIpv6,
              conf.validCname, conf.validMx>>
  /\ inst = [validIpv4 |-> 5, validIpv6 |-> 6, validCname |-> 7,
             validSpf |-> conf.validSpf, validMx |-> 8]
  /\ returned = NoObject
  /\ passed = NoObject
  /\ lastCall = [n |-> 0, op |-> "new", given |-> Given(<<>>, NoObject),
                 append |-> FALSE]

----------------------------------------------------------------------------
(* validateWeb calls side by side on one instance *)

\* the calls made on the instance
Callers == {1, 2}

\* the queries one call may send in a run
MaxWalk == 3

\* a call not yet made
NoCall ==
  [pc |-> "idle", hostname |-> Undefined, ref |-> 0, chainIndex |-> 0,
   sent |-> <<>>, sentAt |-> <<>>, got |-> <<>>, result |-> [class |-> "pending"]]

\* no call made, no chain array created
SideIdle ==
  /\ calls = [k \in Callers |-> NoCall]
  /\ chains = <<>>

\* the number of queries the calls have sent to the Resolver so far
SentSoFar ==
  LET n(k) == Len(calls[k].sent) IN n(1) + n(2)

\* a slip: one chain array kept by the instance and used by every call
NewChain_shared(chs) ==
  [heap |-> IF chs = <<>> THEN << <<>> >> ELSE chs, ref |-> 1]

\* resolve.js:57: const chain = [], a new array for the call
NewChain(chs) == [heap |-> Append(chs, <<>>), ref |-> Len(chs) + 1]

\* resolve.js:56-58,217-221: validateWeb(hostname) up to the await of
\* resolveCname
ValidateWebOn(k, hostname) ==
  /\ calls[k].pc = "idle"
  /\ LET n == NewChain(chains)
         chainIndex == Len(n.heap[n.ref])
     IN /\ chains' = [n.heap EXCEPT ![n.ref] =
                        Append(@, Entry(chainIndex, "CNAME", hostname))]
        /\ calls' = [calls EXCEPT ![k] =
                       [pc |-> "cname", hostname |-> hostname, ref |-> n.ref,
                        chainIndex |-> chainIndex,
                        sent |-> <<Query("CNAME", hostname)>>,
                        sentAt |-> <<SentSoFar + 1>>,
                        got |-> <<>>, result |-> [class |-> "pending"]]]
  /\ UNCHANGED <<c, queries, answers, webVars, mailVars, storeVars>>

\* resolve.js:59-67,235-248: err thrown in the try of #validateCname of call k,
\* whose chain array holds ch
ThrowOn(k, err, ch) ==
  IF CnameCatch(err) = "fallback"
  THEN [calls[k] EXCEPT !.pc = "aaaa"]
  ELSE [calls[k] EXCEPT !.pc = "rejected",
                        !.result = WebError(calls[k].hostname, err, ch)]

\* resolve.js:221-234: resolveCname of call k answered with addresses
CnameAnswerOn(k, addresses) ==
  /\ calls[k].pc = "cname"
  /\ LET call == [calls[k] EXCEPT !.got = Append(@, Resolved(addresses))]
         ref == call.ref
     IN IF Len(CnameIntersection(addresses)) > 0
        THEN /\ chains' = [chains EXCEPT ![ref] =
                             SetResult(@, call.chainIndex, Str("valid"))]
             /\ calls' = [calls EXCEPT ![k] =
                            [call EXCEPT !.pc = "resolved",
                                         !.result = [class |-> "undefined"]]]
        ELSE LET ch == SetResult(chains[ref], call.chainIndex, Arr(addresses))
             IN IF DepthReached(ch)
                THEN /\ chains' = [chains EXCEPT ![ref] = ch]
                     /\ calls' = [calls EXCEPT ![k] =
                          [ThrowOn(k, PlainError("CNAME record lookup exceeded maximum depth"), ch)
                             EXCEPT !.got = call.got]]
                ELSE \* follow the first cname
                     /\ Len(call.sent) < MaxWalk
                     /\ chains' = [chains EXCEPT ![ref] =
                          Append(ch, Entry(Len(ch), "CNAME", NextHostname(addresses)))]
                     /\ calls' = [calls EXCEPT ![k] =
                          [call EXCEPT
                             !.chainIndex = Len(ch),
                             !.sent = Append(@, Query("CNAME", NextHostname(addresses))),
                             !.sentAt = Append(@, SentSoFar + 1)]]
  /\ UNCHANGED <<c, queries, answers, webVars, mailVars, storeVars>>

\* resolve.js:221,235-248: resolveCname of call k rejected with code
CnameFailOn(k, code) ==
  /\ calls[k].pc = "cname"
  /\ calls' = [calls EXCEPT ![k] =
                 [ThrowOn(k, ResolverError(code), chains[calls[k].ref])
                    EXCEPT !.got = Append(@, Rejected(code))]]
  /\ UNCHANGED chains
  /\ UNCHANGED <<c, queries, answers, webVars, mailVars, storeVars>>

----------------------------------------------------------------------------
(* The program *)

MailIdle ==
  /\ mailPc = "idle"
  /\ mailHostname = Undefined
  /\ dkimArg = NoDkim
  /\ task = [spf |-> "idle", mx |-> "idle", dkim |-> "idle"]
  /\ mailAnswers = [spf |-> NoAnswer, mx |-> NoAnswer, dkim |-> NoAnswer]
  /\ results = [spf |-> Unset, mx |-> Unset, dkim |-> Unset]
  /\ mailReturn = [class |-> "pending"]

WebIdle ==
  /\ queries = <<>>
  /\ answers = <<>>
  /\ webPc = "idle"
  /\ webHostname = Undefined
  /\ webCur = Undefined
  /\ chain = <<>>
  /\ webResult = [class |-> "pending"]
  /\ ipResult = [class |-> "pending"]

Init ==
  /\ c \in Configs
  /\ queries = <<>>
  /\ answers = <<>>
  /\ webPc = "idle"
  /\ webHostname = Undefined
  /\ webCur = Undefined
  /\ chain = <<>>
  /\ webResult = [class |-> "pending"]
  /\ ipResult = [class |-> "pending"]
  /\ MailIdle
  /\ SideIdle
  /\ StoreIdle(c)

Next ==
  \/ \E h \in Hostnames : ValidateWeb(h)
  \/ \E a \in CnameAnswers : CnameAnswer(a)
  \/ \E e \in ErrorCodes : CnameFail(e)

\* a validateWeb call on a fresh instance
Spec == Init /\ [][Next]_vars

\* the Resolver settles the promise of the lookup validateWeb awaits
ResolverAnswers ==
  \/ \E a \in CnameAnswers : CnameAnswer(a)
  \/ \E e \in ErrorCodes : CnameFail(e)

\* a resolver instance with the first and second cname of its list set
InitAnswered == Init /\ c.validCname = <<"cdn.ok", "alt.ok">>

\* validateWeb with a Resolver that answers every query
SpecAnswered == InitAnswered /\ [][Next]_vars /\ WF_vars(ResolverAnswers)

NextMail ==
  \/ \E h \in Hostnames, d \in DkimArgs : ValidateMail(h, d)
  \/ \E a \in Lookups(SpfTxtAnswers) : SpfSettles(a)
  \/ \E a \in Lookups(MxAnswers) : MxSettles(a)
  \/ \E a \in Lookups(DkimTxtAnswers) : DkimSettles(a)

\* a validateMail call on a fresh instance
SpecMail == Init /\ [][NextMail]_vars

(* #validateIp on its own: the IP validation step applied to a hostname and  *)
(* to the chain a CNAME walk hands it. The catch of #validateCname passes    *)
(* every Error on (CnameCatch), so no behaviour of Spec enters this step.    *)

\* the chain, queries and answers of a walk that ended in "no data" at h
IpInputs ==
  { [cur |-> h, chain |-> <<[Entry(0, "CNAME", h) EXCEPT !.result = Str("ENODATA")]>>,
     queries |-> <<Query("CNAME", h)>>, answers |-> <<Rejected("ENODATA")>>]
      : h \in Hostnames }
  \cup
  { [cur |-> h,
     chain |-> << [Entry(0, "CNAME", g) EXCEPT !.result = Arr(<<h>>)],
                  [Entry(1, "CNAME", h) EXCEPT !.result = Str("ENODATA")] >>,
     queries |-> <<Query("CNAME", g), Query("CNAME", h)>>,
     answers |-> <<Resolved(<<h>>), Rejected("ENODATA")>>]
      : g \in Hostnames, h \in Hostnames }

InitIp ==
  /\ c \in Configs
  /\ \E inp \in IpInputs :
       /\ queries = inp.queries
       /\ answers = inp.answers
       /\ chain = inp.chain
       /\ webCur = inp.cur
       /\ webHostname = inp.queries[1].hostname
  /\ webPc = "ipcall"
  /\ webResult = [class |-> "pending"]
  /\ ipResult = [class |-> "pending"]
  /\ MailIdle
  /\ SideIdle
  /\ StoreIdle(c)

NextIp ==
  \/ ValidateIp
  \/ \E a \in Ip6Answers : Resolve6Answer(a)
  \/ \E e \in ErrorCodes : Resolve6Fail(e)
  \/ \E a \in Ip4Answers : Resolve4Answer(a)
  \/ \E e \in ErrorCodes : Resolve4Fail(e)

SpecIp == InitIp /\ [][NextIp]_vars

\* the module config.js loaded, and new DnsResolver() with no argument
InitStore ==
  /\ configuration = EmptyStore
  /\ LET r == InstanceRead(<<<<>>, <<>>, <<>>, <<>>>>, EmptyStore)
     IN /\ heap = r.heap
        /\ inst = r.value
        /\ c = Deref(r.heap, r.value)
  /\ returned = NoObject
  /\ passed = NoObject
  /\ lastCall = [n |-> 0, op |-> "new", given |-> Given(<<>>, NoObject),
                 append |-> FALSE]
  /\ WebIdle
  /\ MailIdle
  /\ SideIdle

NextStore ==
  \/ \E p \in Partials, append \in BOOLEAN : Config(p, append)
  \/ \E append \in BOOLEAN : ConfigAgain(append)
  \/ Reset
  \/ GetCall
  \/ \E f \in ArrayFields \cup {"validSpf"} : MutateReturned(f)
  \/ \E f \in ArrayFields \cup {"validSpf"} : MutatePassed(f)
  \/ Construct
  \/ InstanceConfig

SpecStore == InitStore /\ [][NextStore]_vars

\* config(partial), reset(), then new DnsResolver() with no argument
InitReset ==
  /\ \E partial \in Partials :
       LET o == NewObject(<<<<>>, <<>>, <<>>, <<>>>>, partial)
           z == ResetStore(ConfigAppend(o.heap, EmptyStore, o.value))
           r == InstanceRead(z.heap, z.conf)
       IN /\ configuration = z.conf
          /\ heap = r.heap
          /\ inst = r.value
          /\ c = Deref(r.heap, r.value)
          /\ passed = o.value
  /\ returned = NoObject
  /\ lastCall = [n |-> 3, op |-> "new", given |-> Given(<<>>, NoObject),
                 append |-> FALSE]
  /\ WebIdle
  /\ MailIdle
  /\ SideIdle

\* validateMail on an instance built after reset()
SpecReset == InitReset /\ [][NextMail]_vars

NextSide ==
  \/ \E k \in Callers, h \in Hostnames : ValidateWebOn(k, h)
  \/ \E k \in Callers, a \in CnameAnswers : CnameAnswerOn(k, a)
  \/ \E k \in Callers, e \in ErrorCodes : CnameFailOn(k, e)

\* validateWeb calls on one instance, their answers in any order
SpecSide == Init /\ [][NextSide]_vars

----------------------------------------------------------------------------
(* Properties of validateWeb *)

\* the answer a holds a value of list
AnswerHolds(a, list) ==
  a.ok /\ \E i \in 1..Len(a.v) : \E j \in 1..Len(list) : a.v[i] = list[j]

\* the answer a is a list of records none of which is in list
AnswerMisses(a, list) == a.ok /\ ~AnswerHolds(a, list)

\* the first n answers of the walk all miss the CNAME allow-list
FirstMiss(n) ==
  /\ Len(answers) >= n
  /\ \A i \in 1..n : queries[i].type = "CNAME" /\ AnswerMisses(answers[i], c.validCname)

\* C1: when the walk's n-th CNAME answer is the first to hold an allow-listed
\* value (after n-1 answers that held none), validateWeb has resolved and the
\* last entry of its chain has the result 'valid'.
C1_AllowListedCnameResolves ==
  \A n \in 1..Len(answers) :
    (AnswerHolds(answers[n], c.validCname) /\ FirstMiss(n - 1))
      => /\ webPc = "resolved"
         /\ Len(chain) = n
         /\ chain[Len(chain)].result = Str("valid")

\* a walk of 15 queries that resolved on an answer whose first value is not
\* the allow-listed one
C1_Witness ==
  /\ webPc = "resolved"
  /\ Len(chain) = MAX_CNAME_DEPTH - 1
  /\ FirstMiss(MAX_CNAME_DEPTH - 2)
  /\ answers[Len(answers)].v = <<"b.test", "cdn.ok">>

\* C2: 16 CNAME answers that all miss the allow-list reject validateWeb with
\* the maximum-depth error, never more than 16 CNAME queries are sent, and 15
\* misses followed by an allow-listed answer resolve it.
C2_DepthLimit ==
  /\ Len(SelectSeq(queries, LAMBDA q : q.type = "CNAME")) <= MAX_CNAME_DEPTH
  /\ FirstMiss(MAX_CNAME_DEPTH)
       => /\ webPc = "rejected"
          /\ webResult.originalError.message = "CNAME record lookup exceeded maximum depth"
          /\ Len(queries) = MAX_CNAME_DEPTH
  /\ (/\ FirstMiss(MAX_CNAME_DEPTH - 1)
      /\ Len(answers) = MAX_CNAME_DEPTH
      /\ AnswerHolds(answers[MAX_CNAME_DEPTH], c.validCname))
       => webPc = "resolved"

\* the walk rejected after its 16th answer missed the allow-list
C2_Witness ==
  /\ webPc = "rejected"
  /\ FirstMiss(MAX_CNAME_DEPTH)
  /\ Len(chain) = MAX_CNAME_DEPTH

\* C3: a CNAME lookup that fails with ENODATA is followed by an AAAA query for
\* the same hostname, and when that fails with ENODATA too and the A lookup
\* returns an allow-listed address, validateWeb resolves.
C3_NoDataFallsBackToIp ==
  \A n \in 1..Len(answers) :
    (queries[n].type = "CNAME" /\ answers[n] = Rejected("ENODATA"))
      => /\ Len(queries) > n
         /\ queries[n + 1] = Query("AAAA", queries[n].hostname)
         /\ (/\ Len(answers) >= n + 2
             /\ answers[n + 1] = Rejected("ENODATA")
             /\ AnswerHolds(answers[n + 2], c.validIpv4))
              => webPc = "resolved"

\* C5: when validateWeb has rejected, the rejection is one DnsError (wrapping
\* an error that is not itself a DnsError); its chain is the call's chain, with
\* one entry per query sent; its recordType is the type of the last entry; and
\* its expectedValue holds the first value of validCname, validIpv4 and
\* validIpv6 under CNAME, A and AAAA.
C5_WebFailureIsOneDnsError ==
  webPc = "rejected"
    => /\ webResult.class = "DnsError"
       /\ webResult.originalError.class # "DnsError"
       /\ webResult.chain = chain
       /\ Len(chain) = Len(queries)
       /\ \A i \in 1..Len(chain) :
            chain[i].type = queries[i].type /\ chain[i].hostname = queries[i].hostname
       /\ webResult.recordType = chain[Len(chain)].type
       /\ webResult.expectedValue =
            [CNAME |-> IF c.validCname = <<>> THEN Undefined ELSE Head(c.validCname),
             A |-> IF c.validIpv4 = <<>> THEN Undefined ELSE Head(c.validIpv4),
             AAAA |-> IF c.validIpv6 = <<>> THEN Undefined ELSE Head(c.validIpv6)]

\* a rejection at the third hop of a walk, the allow-list having no IPv4
C5_Witness ==
  /\ webPc = "rejected"
  /\ Len(chain) = 3
  /\ webResult.originalError.code = "ENOTFOUND"
  /\ c.validIpv4 = <<>>

----------------------------------------------------------------------------
(* Properties of the IP validation step *)

\* C4: in the IP validation step every A query follows the AAAA query for the
\* same hostname; the A query is sent if and only if the AAAA lookup failed
\* with ENODATA; any other AAAA failure, and an AAAA answer without an
\* allow-listed address, ends the step rejected with no A query.
C4_Ipv6ThenIpv4OnNoData ==
  /\ \A i \in 1..Len(queries) :
       queries[i].type = "A"
         => i > 1 /\ queries[i - 1] = Query("AAAA", queries[i].hostname)
  /\ \A n \in 1..Len(queries) :
       queries[n].type = "AAAA"
         => IF n > Len(answers)
            THEN Len(queries) = n
            ELSE /\ (Len(queries) > n /\ queries[n + 1].type = "A")
                      <=> answers[n] = Rejected("ENODATA")
                 /\ (answers[n] # Rejected("ENODATA")
                       /\ ~AnswerHolds(answers[n], c.validIpv6))
                      => webPc = "ipRejected" /\ Len(queries) = n

\* the step resolved on the A lookup, after AAAA failed with ENODATA
C4_Witness ==
  /\ webPc = "ipResolved"
  /\ queries[Len(queries)].type = "A"
  /\ answers[Len(answers) - 1] = Rejected("ENODATA")
  /\ chain[Len(chain)].result = Str("valid")

----------------------------------------------------------------------------
(* Properties of validateMail *)

Slots == {"spf", "mx", "dkim"}

\* what the validator of slot settles with, given only its own answer
OwnOutcome(slot) ==
  CASE slot = "spf" -> ValidateSpf(mailHostname, mailAnswers.spf)
    [] slot = "mx" -> ValidateMx(mailHostname, mailAnswers.mx)
    [] slot = "dkim" -> IF DkimSendsQuery(dkimArg)
                        THEN ValidateDkim(dkimArg, mailAnswers.dkim)
                        ELSE DkimRefused(dkimArg)

\* C6: validateMail returns exactly when all three validators have finished,
\* whatever each settled with and in whatever order; it returns the results
\* object with the three slots filled; a slot is filled as soon as its own
\* validator has finished, with what that validator settled with on its own
\* answer; and while the call runs, a validator is still waiting.
C6_MailReturnsThreeSlots ==
  /\ (mailPc = "returned") <=> (mailPc # "idle" /\ \A t \in Slots : task[t] = "done")
  /\ mailPc = "returned"
       => /\ mailReturn = results
          /\ \A t \in Slots : mailReturn[t] # Unset
          /\ mailAnswers.spf # NoAnswer /\ mailAnswers.mx # NoAnswer
  /\ mailPc = "running" => \E t \in Slots : task[t] = "wait"
  /\ \A t \in Slots :
       IF task[t] = "done" THEN results[t] = OwnOutcome(t) ELSE results[t] = Unset

\* validateMail returned with the spf slot an error, the mx slot the TypeError
\* of an empty answer and the dkim slot a success
C6_Witness ==
  /\ mailPc = "returned"
  /\ mailReturn.spf.class = "DnsError"
  /\ mailReturn.mx.class = "TypeError"
  /\ mailReturn.dkim.class = "Object"

\* C7: the DKIM TXT query is sent if and only if the dkim argument holds both
\* a selector and a public key; otherwise the dkim slot is a status-400 error
\* and no query is sent for DKIM; the spf and mx slots are what their own
\* validators settle with.
C7_DkimQueryIffSelectorAndKey ==
  mailPc # "idle"
    => LET both == dkimArg.given /\ {"selector", "publicKey"} \subseteq DOMAIN dkimArg.obj
       IN /\ (Len(queries) = 3 /\ queries[3] = Query("TXT", Selector)) <=> both
          /\ ~both => /\ results.dkim.class = "DnsError"
                      /\ results.dkim.status = 400
                      /\ Len(queries) = 2
          /\ \A t \in {"spf", "mx"} : task[t] = "done" => results[t] = OwnOutcome(t)

\* C8: with n the number of returned TXT records whose first segment starts
\* with 'v=spf1': n = 0 gives a 404 error, n > 1 a 409 error, and n = 1 a
\* success exactly when the joined record contains 'include:' followed by
\* validSpf, otherwise an error whose chain entry holds the joined record.
C8_SpfPolicy ==
  (task.spf = "done" /\ mailAnswers.spf.ok)
    => LET records == mailAnswers.spf.v
           spfAt == {i \in 1..Len(records) : StartsWith(records[i][1], "v=spf1")}
           r == results.spf
       IN /\ Cardinality(spfAt) = 0 => r.class = "DnsError" /\ r.status = 404
          /\ Cardinality(spfAt) > 1 => r.class = "DnsError" /\ r.status = 409
          /\ Cardinality(spfAt) = 1
               => LET text == Join(records[CHOOSE i \in spfAt : TRUE])
                  IN IF StrIncludes(text, "include:" \o c.validSpf)
                     THEN r.class = "Object" /\ r.valid
                     ELSE /\ r.class = "DnsError"
                          /\ r.chain[1].result = Arr(<<text>>)

\* the one SPF record, behind another TXT record and split over two segments,
\* is accepted
C8_Witness ==
  /\ task.spf = "done"
  /\ mailAnswers.spf = Resolved(<<NotSpf, SpfSplit>>)
  /\ results.spf.class = "Object"

\* C9: for a non-empty MX answer the mx slot is a success if and only if the
\* exchange of the record with the lowest priority, the first such record in
\* the Resolver's order, is in validMx; on failure the chain entry lists every
\* returned 'priority exchange' pair in ascending order of priority.
C9_MxLowestPriority ==
  (task.mx = "done" /\ mailAnswers.mx.ok /\ Len(mailAnswers.mx.v) > 0)
    => LET recs == mailAnswers.mx.v
           n == Len(recs)
           best == CHOOSE i \in 1..n :
                     /\ \A j \in 1..n : recs[i].priority <= recs[j].priority
                     /\ \A j \in 1..(i - 1) : recs[j].priority > recs[i].priority
           r == results.mx
       IN IF \E k \in 1..Len(c.validMx) : c.validMx[k] = recs[best].exchange
          THEN r.class = "Object" /\ r.valid
          ELSE /\ r.class = "DnsError"
               /\ r.chain[1].result.isArray
               /\ Len(r.chain[1].result.v) = n
               /\ \E perm \in Permutations(1..n) :
                    /\ \A k \in 1..n :
                         r.chain[1].result.v[k] =
                           ToString(recs[perm[k]].priority) \o " " \o recs[perm[k]].exchange
                    /\ \A k \in 1..n : \A l \in k..n :
                         recs[perm[k]].priority <= recs[perm[l]].priority

\* the exchange with the lowest priority is returned second and is the second
\* value of validMx
C9_Witness ==
  /\ task.mx = "done"
  /\ mailAnswers.mx = Resolved(<<Mx(10, "other.net"), Mx(5, "mx2.ok")>>)
  /\ c.validMx = <<"mx.ok", "mx2.ok">>
  /\ results.mx.class = "Object"

\* C10: when the TXT lookup at the selector returns records, the dkim slot is
\* a success if and only if the joined segments of one of them equal the
\* public key; with no record, or none equal, it is a 404 error.
C10_DkimExactKey ==
  (task.dkim = "done" /\ mailAnswers.dkim.ok)
    => LET recs == mailAnswers.dkim.v
           r == results.dkim
       IN IF /\ "publicKey" \in DOMAIN dkimArg.obj
             /\ \E i \in 1..Len(recs) : Join(recs[i]) = dkimArg.obj.publicKey
          THEN r.class = "Object" /\ r.valid
          ELSE r.class = "DnsError" /\ r.status = 404

\* the key, split over two segments of one record, is accepted
C10_Witness ==
  /\ task.dkim = "done"
  /\ mailAnswers.dkim = Resolved(<< <<"v=DKIM1; ", "p=MIGfMA0G">> >>)
  /\ results.dkim.class = "Object"

----------------------------------------------------------------------------
(* Properties of the errors *)

\* the SPF lookup returned exactly one SPF record, and it lacks the include
SpfMismatch ==
  /\ task.spf = "done" /\ mailAnswers.spf.ok
  /\ LET records == mailAnswers.spf.v
         spfAt == {i \in 1..Len(records) : StartsWith(records[i][1], "v=spf1")}
     IN /\ Cardinality(spfAt) = 1
        /\ ~StrIncludes(Join(records[CHOOSE i \in spfAt : TRUE]),
                        "include:" \o c.validSpf)

\* the MX lookup returned records, and the exchange of the first record with
\* the lowest priority is not in validMx
MxMismatch ==
  /\ task.mx = "done" /\ mailAnswers.mx.ok /\ Len(mailAnswers.mx.v) > 0
  /\ LET recs == mailAnswers.mx.v
         best == CHOOSE i \in 1..Len(recs) :
                   /\ \A j \in 1..Len(recs) : recs[i].priority <= recs[j].priority
                   /\ \A j \in 1..(i - 1) : recs[j].priority > recs[i].priority
     IN \A k \in 1..Len(c.validMx) : c.validMx[k] # recs[best].exchange

\* the DKIM lookup returned records, none of them equal to the public key
DkimMismatch ==
  /\ task.dkim = "done" /\ mailAnswers.dkim.ok /\ Len(mailAnswers.dkim.v) > 0
  /\ \A i \in 1..Len(mailAnswers.dkim.v) :
       Join(mailAnswers.dkim.v[i]) # Prop(dkimArg.obj, "publicKey")

\* C15, as claimed: every mismatch error (SPF record without the include,
\* lowest-priority MX exchange not in validMx, no DKIM record equal to the
\* key) has the status 404.
C15_EveryMismatchIs404 ==
  /\ SpfMismatch => results.spf.class = "DnsError" /\ results.spf.status = 404
  /\ MxMismatch => results.mx.class = "DnsError" /\ results.mx.status = 404
  /\ DkimMismatch => results.dkim.class = "DnsError" /\ results.dkim.status = 404

\* C15, amended: the SPF and the DKIM mismatch errors have the status 404, the
\* MX mismatch error has the status 409.
C15_MismatchStatus ==
  /\ SpfMismatch => results.spf.class = "DnsError" /\ results.spf.status = 404
  /\ MxMismatch => results.mx.class = "DnsError" /\ results.mx.status = 409
  /\ DkimMismatch => results.dkim.class = "DnsError" /\ results.dkim.status = 404

\* all three validators found a record that is not the expected one
C15_Witness ==
  /\ SpfMismatch /\ MxMismatch /\ DkimMismatch
  /\ results.mx.status = 409
  /\ results.spf.status = 404

\* C16: every filled slot of validateMail is a success payload with the valid
\* marker or a DnsError (with its status and chain), whatever the Resolver
\* answered, an empty record list included.
C16_SlotIsValidOrDnsError ==
  \A t \in Slots :
    task[t] = "done"
      => \/ results[t].class = "Object" /\ results[t].valid
         \/ /\ results[t].class = "DnsError"
            /\ results[t].status \in {400, 404, 409, 500}
            /\ Len(results[t].chain) <= 1

\* the queries validateMail's validator of slot has sent
IssuedBy(slot) ==
  CASE slot = "spf" -> <<Query("TXT", mailHostname)>>
    [] slot = "mx" -> <<Query("MX", mailHostname)>>
    [] slot = "dkim" -> IF Len(queries) = 3 THEN <<queries[3]>> ELSE <<>>

\* the chain ch is the log of the queries sent: entry i has nr = i and the type
\* and hostname of the i-th query
ChainLogs(ch, sent) ==
  /\ Len(ch) = Len(sent)
  /\ \A i \in 1..Len(ch) :
       /\ ch[i].nr = i - 1
       /\ ch[i].type = sent[i].type
       /\ ch[i].hostname = sent[i].hostname

\* C17: the chain of every error of validateWeb and of the SPF, MX and DKIM
\* validators is exactly the sequence of queries that validation sent, in
\* order.
C17_ChainIsTheQueryLog ==
  /\ webPc = "rejected" => ChainLogs(webResult.chain, queries)
  /\ \A t \in Slots :
       (task[t] = "done" /\ results[t].class = "DnsError")
         => ChainLogs(results[t].chain, IssuedBy(t))

\* C18: in the chain of an error of validateWeb the result of every entry
\* whose query was answered is 'valid' when the answer held an allow-listed
\* value, the returned values when it held none, and the error code when the
\* lookup failed.
C18_ChainResultsReflectAnswers ==
  webPc = "rejected"
    => \A i \in 1..Len(answers) :
         webResult.chain[i].result =
           IF ~answers[i].ok THEN Str(answers[i].code)
           ELSE IF AnswerHolds(answers[i], c.validCname) THEN Str("valid")
           ELSE Arr(answers[i].v)

\* the number of queries of record type sent so far
Sent(type) == Len(SelectSeq(queries, LAMBDA q : q.type = type))

\* what holds of the queries of validateWeb at every moment
WebQueriesBounded ==
  /\ Sent("CNAME") <= 16 /\ Sent("AAAA") <= 1 /\ Sent("A") <= 1
  /\ Len(queries) <= Len(answers) + 1
  /\ webPc \in {"resolved", "rejected"} => Len(queries) = Len(answers)
  /\ \A i \in 2..Len(queries) :
       queries[i].type = "CNAME"
         => /\ answers[i - 1].ok
            /\ queries[i].hostname = answers[i - 1].v[1]

\* C19: when the Resolver answers every query, alias loops included,
\* validateWeb settles; it sends at most 16 CNAME queries, one AAAA query and
\* one A query, one after the other, each CNAME query after the first for the
\* first value of the answer before it, and none after a failed lookup.
C19_WebSettles ==
  /\ []WebQueriesBounded
  /\ (webPc = "cname") ~> (webPc \in {"resolved", "rejected"})

\* an alias loop walked to the depth limit, and the call has settled
C19_Witness ==
  /\ webPc = "rejected"
  /\ Sent("CNAME") = 16
  /\ \E i \in 1..Len(queries) : \E j \in (i + 1)..Len(queries) : queries[i] = queries[j]

----------------------------------------------------------------------------
(* Properties of the process-wide allow-list *)

\* the content of the store: the value get() returns
StoreValue == Deref(heap, configuration)

\* the step is the call op on the store or the instance
Called(op) == lastCall'.n # lastCall.n /\ lastCall'.op = op

\* C11: on an instance that read the store after reset(), no validation
\* succeeds, whatever the Resolver answers: every finished slot of
\* validateMail holds an error.
C11_ResetFailsEveryValidation ==
  \A t \in Slots : task[t] = "done" => results[t].class # "Object"

\* C12: the object that get(), config() and reset() return has the content of
\* the store and shares no array with it, and a change the caller makes to the
\* returned object leaves the content of the store as it was.
C12_GetReturnsACopy ==
  [][/\ (Called("get") \/ Called("config") \/ Called("reset"))
          => /\ Deref(heap', returned') = StoreValue'
             /\ \A f, g \in ArrayFields : returned'[f] # configuration'[g]
     /\ Called("mutate returned") => StoreValue' = StoreValue]_vars

\* the caller has added a value to a non-empty array it got, and the store
\* does not hold it
C12_Witness ==
  /\ lastCall.op = "mutate returned"
  /\ \E f \in ArrayFields :
       /\ Len(StoreValue[f]) > 0
       /\ heap[returned[f]] = Append(StoreValue[f], Foreign)

\* C13: config(partial, append) leaves in every field absent from partial the
\* value it had; in a list field present the old list followed by the incoming
\* values when append is true, the incoming list when it is false; in validSpf,
\* when present, the incoming string.
C13_ConfigMerges ==
  [][Called("config")
       => LET given == lastCall'.given
          IN /\ \A f \in ArrayFields :
                  StoreValue'[f] =
                    IF f \notin given.has THEN StoreValue[f]
                    ELSE IF lastCall'.append THEN StoreValue[f] \o given[f]
                    ELSE given[f]
             /\ StoreValue'.validSpf =
                  IF "validSpf" \in given.has THEN given.validSpf
                  ELSE StoreValue.validSpf]_vars

\* two lists appended one after the other, the other fields as they were
C13_Witness ==
  /\ lastCall.op = "config" /\ lastCall.append
  /\ StoreValue.validIpv4 = <<"1.1.1.1", "192.0.2.1", "192.0.2.2">>
  /\ StoreValue.validMx = <<"mx.ok">>
  /\ StoreValue.validCname = <<"cdn.ok", "alt.ok">>
  /\ StoreValue.validSpf = "mail.ok"

\* C14: the allow-list of an instance built without a config argument is the
\* content the store had when the constructor, or later the instance's config
\* method, read it; no other call changes it.
C14_InstanceKeepsItsSnapshot ==
  [][lastCall'.n # lastCall.n
       => IF lastCall'.op \in {"new", "instance config"}
          THEN c' = StoreValue
          ELSE c' = c]_vars

\* the instance read a configured store, and a later config() or reset() has
\* given the store another content
C14_Witness ==
  /\ lastCall.op \in {"config", "reset"}
  /\ c.validIpv4 # <<>>
  /\ c # StoreValue

\* C20: the content of the store changes only in a config() or a reset()
\* call; no other step changes it, a change the caller makes to an object it
\* passed to config() included.
C20_StoreChangesOnlyInConfigOrReset ==
  [][(lastCall'.n # lastCall.n /\ lastCall'.op \notin {"config", "reset"})
       => StoreValue' = StoreValue]_vars

----------------------------------------------------------------------------
(* Properties of validateWeb calls side by side *)

RECURSIVE Walk(_, _, _, _)
\* a validateWeb(hostname) call that runs alone, its chain ch so far, served
\* the answers ans from the i-th on: where it stands, its chain, its outcome
Walk(hostname, ch, ans, i) ==
  IF i > Len(ans)
  THEN [pc |-> "cname", chain |-> ch, result |-> [class |-> "pending"]]
  ELSE IF ~ans[i].ok
  THEN [pc |-> "rejected", chain |-> ch,
        result |-> WebError(hostname, ResolverError(ans[i].code), ch)]
  ELSE IF \E j \in 1..Len(ans[i].v) : Includes(c.validCname, ans[i].v[j])
  THEN [pc |-> "resolved", chain |-> SetResult(ch, Len(ch) - 1, Str("valid")),
        result |-> [class |-> "undefined"]]
  ELSE LET miss == SetResult(ch, Len(ch) - 1, Arr(ans[i].v))
       IN IF Len(miss) >= 16
          THEN [pc |-> "rejected", chain |-> miss,
                result |-> WebError(hostname,
                             PlainError("CNAME record lookup exceeded maximum depth"),
                             miss)]
          ELSE Walk(hostname,
                    Append(miss, Entry(Len(miss), "CNAME", ans[i].v[1])), ans, i + 1)

\* the call alone, from its start
Alone(hostname, ans) == Walk(hostname, <<Entry(0, "CNAME", hostname)>>, ans, 1)

\* C21: of validateWeb calls that run side by side on one instance, in every
\* order of their answers, each call's chain array holds the queries of that
\* call alone, nr counting from 0, and the call stands where it would stand,
\* with the chain and the outcome it would have, had it run alone on the
\* answers it got.
C21_SideBySideAsAlone ==
  \A k \in Callers :
    calls[k].pc # "idle"
      => LET alone == Alone(calls[k].hostname, calls[k].got)
         IN /\ ChainLogs(chains[calls[k].ref], calls[k].sent)
            /\ calls[k].pc = alone.pc
            /\ chains[calls[k].ref] = alone.chain
            /\ calls[k].result = alone.result

\* two calls for one hostname, each with two queries, sent in turn, both
\* settled, one resolved and one rejected
C21_Witness ==
  /\ calls[1].hostname = calls[2].hostname
  /\ calls[1].pc = "resolved" /\ calls[2].pc = "rejected"
  /\ Len(calls[1].sent) = 2 /\ Len(calls[2].sent) = 2
  /\ calls[1].sentAt[1] < calls[2].sentAt[1]
  /\ calls[2].sentAt[1] < calls[1].sentAt[2]
  /\ calls[1].sentAt[2] < calls[2].sentAt[2]

====
